---- MODULE Spec2Model ----
\* cssSelectorBuilder of src/src/06-objects-tasks.js as a state machine.
\*
\* The heap holds the builder object and every object a part-appending call
\* returned.  An object is its own `res` string and a reference to a `bits`
\* array; arrays live in their own store because `{ ...obj }` copies the
\* reference, not the array.  Text is a sequence of one-character strings.
EXTENDS Integers, Sequences, FiniteSets, TLC

VARIABLES
    objs,   \* heap of objects: objs[o] = [res |-> text, bits |-> index into arrs]
    arrs,   \* heap of flag arrays: arrs[a][i + 1] is bits[i] of the code
    ret,    \* outcome of the last public call: what it returned or threw
    meta,   \* history, per object: how the object came to be (read by no operation)
    pend,   \* history: the unrendered combine result the builder holds
    combines \* how many combine calls have been made

vars == <<objs, arrs, ret, meta, pend, combines>>

\* ---------------------------------------------------------------- bounds
MaxObjs == 3            \* objects on the heap, the builder included
MaxCombines == 1        \* combine calls in a run
NestedObjs == 4         \* the same two bounds for the runs that nest combine
NestedCombines == 2

\* ------------------------------------------------------- program constants
NBits == 6              \* new Array(6)
Builder == 1            \* the object literal cssSelectorBuilder itself
Combinators == {"+", " "}

\* The messages of the two errors, and the mark of a call that returned.
OnceError ==
    "Element, id and pseudo-element should not occur more then one time inside the selector"
OrderError ==
    "Selector parts should be arranged in the following order: element, id, class, attribute, pseudo-class, pseudo-element"
NoError == "none"

Objs == 1..Len(objs)

\* The argument of a part-appending call.  The methods only concatenate it, so
\* they cannot tell one value from another; each call that allocates is given
\* a value of its own, which keeps every fragment of every text apart.
ValueNames == <<"a", "b", "c", "d", "e", "f">>
Fresh == ValueNames[Len(objs)]
NoBits == [i \in 1..NBits |-> FALSE]

\* ------------------------------------------------------------ the methods
\* Each method is an operator from the heap (os, as) and its arguments to its
\* outcome: what it throws, what it returns, and the heap it leaves.

\* checkCallOnce with the test left out: it never throws.
checkCallOnce_never(os, as, this, bit) == FALSE

\* checkCallOnce(bit): TRUE when it throws.
checkCallOnce(os, as, this, bit) == as[os[this].bits][bit + 1]

\* checkOrder with the loop started at i = bit instead of bit + 1.
checkOrder_fromBit(os, as, this, bit) ==
    \E i \in bit..(NBits - 1) : as[os[this].bits][i + 1]

\* checkOrder with the loop started at i = bit + 2: the next category is skipped.
checkOrder_skipsNext(os, as, this, bit) ==
    \E i \in (bit + 2)..(NBits - 1) : as[os[this].bits][i + 1]

\* checkOrder(bit): TRUE when it throws; the loop runs i = bit + 1 .. length - 1.
checkOrder(os, as, this, bit) ==
    \E i \in (bit + 1)..(NBits - 1) : as[os[this].bits][i + 1]

\* createNewObj without the slice(): the copy keeps obj's own flags array.
createNewObj_shared(os, as, obj, bit) ==
    LET spread == os[obj]
    IN  [objs |-> Append(os, spread),
         arrs |-> [Append(as, as[spread.bits]) EXCEPT ![spread.bits][bit + 1] = TRUE],
         obj  |-> Len(os) + 1]

\* createNewObj(obj, bit): a shallow copy of obj with its own copy of the flags.
createNewObj(os, as, obj, bit) ==
    LET spread == os[obj]                              \* { ...obj }
        sliced == Append(as, as[spread.bits])           \* obj.bits.slice()
        newObj == [spread EXCEPT !.bits = Len(sliced)]  \* newObj.bits = ...
    IN  [objs |-> Append(os, newObj),
         arrs |-> [sliced EXCEPT ![newObj.bits][bit + 1] = TRUE],
         obj  |-> Len(os) + 1]

Thrown(os, as, error) == [throws |-> error, objs |-> os, arrs |-> as, obj |-> 0]

\* The same with = for +=: the copy's text is replaced, not extended.
Appended_assigned(h, text) ==
    [throws |-> NoError,
     objs   |-> [h.objs EXCEPT ![h.obj].res = text],
     arrs   |-> h.arrs,
     obj    |-> h.obj]

\* obj.res += text; return obj.
Appended(h, text) ==
    [throws |-> NoError,
     objs   |-> [h.objs EXCEPT ![h.obj].res = @ \o text],
     arrs   |-> h.arrs,
     obj    |-> h.obj]

\* element with its two checks in the other order: checkOrder first.
element_orderFirst(os, as, this, value) ==
    IF checkOrder(os, as, this, 0) THEN Thrown(os, as, OrderError)
    ELSE IF checkCallOnce(os, as, this, 0) THEN Thrown(os, as, OnceError)
    ELSE Appended(createNewObj(os, as, this, 0), <<value>>)

element(os, as, this, value) ==
    IF checkCallOnce(os, as, this, 0) THEN Thrown(os, as, OnceError)
    ELSE IF checkOrder(os, as, this, 0) THEN Thrown(os, as, OrderError)
    ELSE Appended(createNewObj(os, as, this, 0), <<value>>)

\* id with the flag set on `this` before the order is checked.
id_marksFirst(os, as, this, value) ==
    IF checkCallOnce(os, as, this, 1) THEN Thrown(os, as, OnceError)
    ELSE IF checkOrder(os, as, this, 1)
         THEN Thrown(os, [as EXCEPT ![os[this].bits][2] = TRUE], OrderError)
    ELSE Appended(createNewObj(os, as, this, 1), <<"#", value>>)

id(os, as, this, value) ==
    IF checkCallOnce(os, as, this, 1) THEN Thrown(os, as, OnceError)
    ELSE IF checkOrder(os, as, this, 1) THEN Thrown(os, as, OrderError)
    ELSE Appended(createNewObj(os, as, this, 1), <<"#", value>>)

class(os, as, this, value) ==
    IF checkOrder(os, as, this, 2) THEN Thrown(os, as, OrderError)
    ELSE Appended(createNewObj(os, as, this, 2), <<".", value>>)

attr(os, as, this, value) ==
    IF checkOrder(os, as, this, 3) THEN Thrown(os, as, OrderError)
    ELSE Appended(createNewObj(os, as, this, 3), <<"[", value, "]">>)

pseudoClass(os, as, this, value) ==
    IF checkOrder(os, as, this, 4) THEN Thrown(os, as, OrderError)
    ELSE Appended(createNewObj(os, as, this, 4), <<":", value>>)

pseudoElement(os, as, this, value) ==
    IF checkCallOnce(os, as, this, 5) THEN Thrown(os, as, OnceError)
    ELSE IF checkOrder(os, as, this, 5) THEN Thrown(os, as, OrderError)
    ELSE Appended(createNewObj(os, as, this, 5), <<":", ":", value>>)

\* stringify on one buffer shared by every object: it empties them all.
stringify_shared(os, this) ==
    [str |-> os[this].res, objs |-> [o \in DOMAIN os |-> [os[o] EXCEPT !.res = <<>>]]]

\* stringify(): returns this.res and empties it.
stringify(os, this) ==
    [str |-> os[this].res, objs |-> [os EXCEPT ![this].res = <<>>]]

\* combine(selector1, combinator, selector2): renders selector1, then
\* selector2, stores the joined text in this.res and returns this.
combine(os, this, selector1, combinator, selector2) ==
    LET temp1 == stringify(os, selector1)
        temp2 == stringify(temp1.objs, selector2)
    IN  [objs |-> [temp2.objs EXCEPT
                     ![this].res = temp1.str \o <<" ", combinator, " ">> \o temp2.str],
         obj  |-> this]

\* ---------------------------------------------------------------- history
\* The selector text a part stands for: value, #value, .value, [value],
\* :value, ::value for bits 0..5.
Fragment(bit, value) ==
    CASE bit = 0 -> <<value>>
      [] bit = 1 -> <<"#", value>>
      [] bit = 2 -> <<".", value>>
      [] bit = 3 -> <<"[", value, "]">>
      [] bit = 4 -> <<":", value>>
      [] bit = 5 -> <<":", ":", value>>

RECURSIVE SelectorText(_)
SelectorText(calls) ==
    IF calls = <<>> THEN <<>>
    ELSE Fragment(Head(calls).bit, Head(calls).value) \o SelectorText(Tail(calls))

Joined(left, combinator, right) == left \o <<" ", combinator, " ">> \o right

\* What is recorded of the object a part-appending call on `this` returns:
\*   calls   the part calls of its chain, from the builder on
\*   written whether stringify or combine has written its res since
\*   clean   whether every state of its chain was unwritten when extended
\*   base    the builder's text when its chain was started
\*   ptext   the text of `this` when the call was made
\*   root    the first object of its chain
\*   from    the object the call was made on
Born(this, bit, value) ==
    [calls   |-> Append(meta[this].calls, [bit |-> bit, value |-> value]),
     written |-> FALSE,
     clean   |-> this = Builder \/ (meta[this].clean /\ ~meta[this].written),
     base    |-> IF this = Builder THEN objs[Builder].res ELSE meta[this].base,
     ptext   |-> objs[this].res,
     root    |-> IF this = Builder THEN Len(objs) + 1 ELSE meta[this].root,
     from    |-> this]

\* A chain state built by part calls alone from the empty builder, not yet rendered.
Intact(o) ==
    /\ o # Builder
    /\ meta[o].clean
    /\ meta[o].base = <<>>
    /\ ~meta[o].written

\* pend: whether the builder holds the unrendered result of combining two
\* distinct intact chains, how many objects existed when it was made, and the
\* text that result stands for.
NoPend == [on |-> FALSE, at |-> 0, sel |-> <<>>]

\* ---------------------------------------------------------------- actions
\* One action per public call.
Returns(bit, this, value, out) ==
    /\ objs' = out.objs
    /\ arrs' = out.arrs
    /\ ret' = [throws |-> out.throws, obj |-> out.obj, str |-> <<>>]
    /\ meta' = IF out.throws = NoError THEN Append(meta, Born(this, bit, value)) ELSE meta
    /\ UNCHANGED <<pend, combines>>

CallElement(this, value) ==
    Returns(0, this, value, element(objs, arrs, this, value))

CallId(this, value) ==
    Returns(1, this, value, id(objs, arrs, this, value))

CallClass(this, value) ==
    Returns(2, this, value, class(objs, arrs, this, value))

CallAttr(this, value) ==
    Returns(3, this, value, attr(objs, arrs, this, value))

CallPseudoClass(this, value) ==
    Returns(4, this, value, pseudoClass(objs, arrs, this, value))

CallPseudoElement(this, value) ==
    Returns(5, this, value, pseudoElement(objs, arrs, this, value))

CallStringify(this) ==
    LET out == stringify(objs, this)
    IN  /\ objs' = out.objs
        /\ ret' = [throws |-> NoError, obj |-> 0, str |-> out.str]
        /\ meta' = [meta EXCEPT ![this].written = TRUE]
        /\ pend' = IF this = Builder THEN NoPend ELSE pend
        /\ UNCHANGED <<arrs, combines>>

CallCombine(this, selector1, combinator, selector2) ==
    LET out == combine(objs, this, selector1, combinator, selector2)
    IN  /\ combines' = combines + 1
        /\ objs' = out.objs
        /\ ret' = [throws |-> NoError, obj |-> out.obj, str |-> <<>>]
        /\ meta' = [meta EXCEPT ![selector1].written = TRUE,
                                ![selector2].written = TRUE,
                                ![this].written = TRUE]
        /\ pend' = IF this = Builder
                   THEN IF Intact(selector1) /\ Intact(selector2) /\ selector1 # selector2
                        THEN [on |-> TRUE, at |-> Len(objs),
                              sel |-> Joined(SelectorText(meta[selector1].calls), combinator,
                                             SelectorText(meta[selector2].calls))]
                        ELSE NoPend
                   ELSE IF Builder \in {selector1, selector2} THEN NoPend ELSE pend
        /\ UNCHANGED arrs

Init ==
    /\ objs = <<[res |-> <<>>, bits |-> 1]>>
    /\ arrs = <<NoBits>>
    /\ ret = [throws |-> NoError, obj |-> 0, str |-> <<>>]
    /\ meta = <<[calls |-> <<>>, written |-> FALSE, clean |-> TRUE,
                 base |-> <<>>, ptext |-> <<>>, root |-> Builder, from |-> Builder]>>
    /\ pend = NoPend
    /\ combines = 0

\* A run allocates at most maxObjs objects and calls combine at most maxCombines
\* times: a part-appending call that would allocate beyond that is not made.
Fits(maxObjs, out) == Len(out.objs) <= maxObjs

PartCalls(maxObjs, callers) ==
    \/ \E this \in callers :
          Fits(maxObjs, element(objs, arrs, this, Fresh)) /\ CallElement(this, Fresh)
    \/ \E this \in callers :
          Fits(maxObjs, id(objs, arrs, this, Fresh)) /\ CallId(this, Fresh)
    \/ \E this \in callers :
          Fits(maxObjs, class(objs, arrs, this, Fresh)) /\ CallClass(this, Fresh)
    \/ \E this \in callers :
          Fits(maxObjs, attr(objs, arrs, this, Fresh)) /\ CallAttr(this, Fresh)
    \/ \E this \in callers :
          Fits(maxObjs, pseudoClass(objs, arrs, this, Fresh)) /\ CallPseudoClass(this, Fresh)
    \/ \E this \in callers :
          Fits(maxObjs, pseudoElement(objs, arrs, this, Fresh)) /\ CallPseudoElement(this, Fresh)

Renders == \E this \in Objs : CallStringify(this)

Combines(maxCombines, callers) ==
    /\ combines < maxCombines
    /\ \E this \in callers, selector1 \in Objs, selector2 \in Objs, combinator \in Combinators :
          CallCombine(this, selector1, combinator, selector2)

\* Every call on every object.
Next == PartCalls(MaxObjs, Objs) \/ Renders \/ Combines(MaxCombines, Objs)

Spec == Init /\ [][Next]_vars

\* The part-appending calls and stringify alone: the runs that build and render chains.
NextChains == PartCalls(MaxObjs, Objs) \/ Renders

SpecChains == Init /\ [][NextChains]_vars

\* The builder used as the facade it is documented to be: one-part chains
\* started on it, combined by it and the result rendered from it, with room
\* for a combine of a combine.
NextNested ==
    \/ PartCalls(NestedObjs, {Builder})
    \/ CallStringify(Builder)
    \/ Combines(NestedCombines, {Builder})

SpecNested == Init /\ [][NextNested]_vars

\* ------------------------------------------------------------------ claims
Bits == 0..(NBits - 1)
OnceBits == {0, 1, 5}                   \* element, id, pseudoElement
Has(o, bit) == arrs[objs[o].bits][bit + 1]
Flags(o) == arrs[objs[o].bits]
HigherSet(o, bit) == \E i \in Bits : i > bit /\ Has(o, i)
LastCall(o) == meta[o].calls[Len(meta[o].calls)]
Uses(calls, bit) == Cardinality({k \in 1..Len(calls) : calls[k].bit = bit})

\* What the part-appending call of category `bit` does when made on `this` now.
Outcome(this, bit) ==
    CASE bit = 0 -> element(objs, arrs, this, Fresh)
      [] bit = 1 -> id(objs, arrs, this, Fresh)
      [] bit = 2 -> class(objs, arrs, this, Fresh)
      [] bit = 3 -> attr(objs, arrs, this, Fresh)
      [] bit = 4 -> pseudoClass(objs, arrs, this, Fresh)
      [] bit = 5 -> pseudoElement(objs, arrs, this, Fresh)

C2_OrderingRule ==
    \A this \in Objs, bit \in Bits :
        Outcome(this, bit).throws = OrderError
            <=> /\ ~(bit \in OnceBits /\ Has(this, bit))
                /\ HigherSet(this, bit)

\* A call was rejected for ordering, and a call of the category of the
\* highest flag set was accepted.
C2_Witness ==
    /\ ret.throws = OrderError
    /\ \E o \in Objs : Len(meta[o].calls) = 2
                       /\ meta[o].calls[1].bit = meta[o].calls[2].bit

\* C3: element, id and pseudoElement fail with the duplicate-part error
\* whenever their own flag is set in the state they are called on, class, attr
\* and pseudoClass never do, and no chain holds two element, two id or two
\* pseudoElement parts.
C3_SingleOccurrence ==
    /\ \A this \in Objs, bit \in Bits :
           /\ (bit \in OnceBits /\ Has(this, bit)) => Outcome(this, bit).throws = OnceError
           /\ bit \notin OnceBits => Outcome(this, bit).throws # OnceError
    /\ \A o \in Objs, bit \in OnceBits : Uses(meta[o].calls, bit) <= 1

\* A second element, id or pseudoElement call on a chain was rejected.
C3_Witness ==
    /\ ret.throws = OnceError
    /\ \E o \in Objs, bit \in OnceBits : Has(o, bit) /\ Uses(meta[o].calls, bit) = 1

\* C4: rendering a state twice in a row returns the same string both times.
\* Stated of the render that follows a render step.
C4_RenderTwiceSame ==
    [][\A o \in Objs : CallStringify(o) => stringify(objs', o).str = ret'.str]_vars

\* C5: the state combine returns holds the text of left, a space, the
\* combinator, a space and the text of right, for every pair of chain states.
C5_CombineJoinsOperands ==
    [][\A this \in Objs, left \in Objs \ {Builder}, right \in Objs \ {Builder},
          combinator \in Combinators :
          CallCombine(this, left, combinator, right) =>
              objs'[ret'.obj].res = Joined(objs[left].res, combinator, objs[right].res)]_vars

\* C6: a successful part-appending call (the steps that allocate) returns an
\* object that did not exist and leaves the text and the flags of every
\* existing object as they were.
C6_CopyOnWrite ==
    [][Len(objs') > Len(objs) =>
          /\ ret'.obj \notin Objs
          /\ \A o \in Objs : objs'[o].res = objs[o].res /\ Flags(o)' = Flags(o)]_vars

\* A chain state was extended and still holds its own text and flags.
C6_Witness ==
    \E n \in Objs \ {Builder} :
        LET p == meta[n].from
        IN  /\ p # Builder
            /\ ret.obj = n
            /\ objs[p].res = SelectorText(meta[p].calls)
            /\ ~Has(p, LastCall(n).bit)
            /\ Has(n, LastCall(n).bit)

\* C7: the first render of a state derived from S returns S's text as it was
\* when the state was derived, followed by the state's own fragment, whatever
\* was appended to or rendered from its siblings in between; and a render
\* leaves the text of every other object as it was.
C7_SiblingsDoNotInterfere ==
    [][\A o \in Objs :
          CallStringify(o) =>
              /\ (o # Builder /\ ~meta[o].written) =>
                     ret'.str = meta[o].ptext \o Fragment(LastCall(o).bit, LastCall(o).value)
              /\ \A q \in Objs \ {o} : objs'[q].res = objs[q].res]_vars

\* Two states derived from the same state have both been rendered, the
\* second returning its own text.
C7_Witness ==
    \E a \in Objs \ {Builder}, b \in Objs \ {Builder} :
        /\ a # b
        /\ meta[a].from = meta[b].from
        /\ meta[a].written /\ meta[b].written
        /\ ret.str = meta[b].ptext \o Fragment(LastCall(b).bit, LastCall(b).value)

\* Whether the part-appending call of category `bit` on `this` is rejected.
Rejected(this, bit) ==
    \/ bit \in OnceBits /\ checkCallOnce(objs, arrs, this, bit)
    \/ checkOrder(objs, arrs, this, bit)

\* C8: a part-appending call that fails (the steps that throw) leaves the
\* text and flags of every object as they were, and every object accepts the
\* calls it accepted before.
C8_FailedCallChangesNothing ==
    [][ret'.throws # NoError =>
          /\ objs' = objs
          /\ arrs' = arrs
          /\ \A o \in Objs, bit \in Bits : Rejected(o, bit)' = Rejected(o, bit)]_vars

\* A call on a chain state has failed.
C8_Witness ==
    /\ ret.throws # NoError
    /\ \E o \in Objs \ {Builder} : \E bit \in Bits : Rejected(o, bit)

\* C9: combine returns an object that is none of its operands nor the object
\* it was called on, and leaves the text of all three as it was.
C9_CombineIsPure ==
    [][\A this \in Objs, left \in Objs, right \in Objs, combinator \in Combinators :
          CallCombine(this, left, combinator, right) =>
              /\ ret'.obj \notin {this, left, right}
              /\ objs'[left].res = objs[left].res
              /\ objs'[right].res = objs[right].res
              /\ objs'[this].res = objs[this].res]_vars

\* A chain built by part calls alone, not yet rendered, started on the builder
\* after the combine whose result the builder holds.
BuiltAfter(o) ==
    /\ o # Builder
    /\ meta[o].clean
    /\ ~meta[o].written
    /\ meta[o].root > pend.at

\* C10: combining an unrendered combine result with a chain, the result on
\* the left (the chain built after it) or on the right (the chain built before
\* it), gives the text the left operand stands for, a space, the combinator,
\* a space and the text the right operand stands for.
C10_NestedCombine ==
    [][\A o \in Objs \ {Builder}, combinator \in Combinators :
          /\ (pend.on /\ BuiltAfter(o) /\ CallCombine(Builder, Builder, combinator, o)) =>
                 objs'[ret'.obj].res =
                     Joined(pend.sel, combinator, SelectorText(meta[o].calls))
          /\ (pend.on /\ Intact(o) /\ CallCombine(Builder, o, combinator, Builder)) =>
                 objs'[ret'.obj].res =
                     Joined(SelectorText(meta[o].calls), combinator, pend.sel)]_vars

\* C11: whenever a chain is started on the shared builder (a part-appending
\* call on it succeeds), the builder's text is empty and its flags are unset,
\* and the state returned holds its own fragment only.
C11_BuilderStaysEmpty ==
    [][(Len(objs') > Len(objs) /\ meta'[Len(objs')].from = Builder) =>
          /\ objs[Builder].res = <<>>
          /\ Flags(Builder) = NoBits
          /\ objs'[Len(objs')].res = SelectorText(meta'[Len(objs')].calls)]_vars

\* The current stage of a flags array: the highest category whose flag is
\* set, -1 when none is.
Stage(flags) ==
    IF \E i \in Bits : flags[i + 1]
    THEN CHOOSE i \in Bits : flags[i + 1] /\ \A j \in Bits : flags[j + 1] => j <= i
    ELSE -1

RepeatBits == {2, 3, 4}                 \* class, attr, pseudoClass

\* C12: the state a successful part-appending call returns has the caller's
\* flags plus the appended category; the appended category is at or above the
\* caller's stage, so the stage never decreases, and it is the caller's stage
\* only for class, attr and pseudoClass.
C12_StageMovesForward ==
    [][Len(objs') > Len(objs) =>
          LET n == Len(objs')
              this == meta'[n].from
              bit == meta'[n].calls[Len(meta'[n].calls)].bit
              before == arrs[objs[this].bits]
              after == arrs'[objs'[n].bits]
          IN  /\ after = [before EXCEPT ![bit + 1] = TRUE]
              /\ Stage(after) >= Stage(before)
              /\ Stage(after) = bit
              /\ Stage(after) = Stage(before) => bit \in RepeatBits]_vars

\* A chain state was extended to a strictly later stage.
C12_Witness ==
    \E n \in Objs \ {Builder} :
        LET this == meta[n].from
        IN  /\ this # Builder
            /\ ret.obj = n
            /\ Stage(Flags(this)) >= 0
            /\ Stage(Flags(n)) > Stage(Flags(this))

\* C13: the state combine returns has none of its six flags set, whatever
\* flags its operands have.
C13_CombineResetsFlags ==
    [][\A this \in Objs, left \in Objs, right \in Objs, combinator \in Combinators :
          CallCombine(this, left, combinator, right) =>
              arrs'[objs'[ret'.obj].bits] = NoBits]_vars

\* C14: an element, id or pseudoElement call made on a state whose own flag
\* and a flag of a strictly higher category are both set fails with the
\* message of the duplicate-part error, not with the message of the ordering
\* error; and a call fails with either message only if the rule the message
\* names is violated in the state it is made on.
C14_OccurrenceCheckedFirst ==
    \A this \in Objs, bit \in Bits :
        LET thrown == Outcome(this, bit).throws
        IN  /\ (bit \in OnceBits /\ Has(this, bit) /\ HigherSet(this, bit)) =>
                   thrown = OnceError /\ thrown # OrderError
            /\ thrown = OnceError => bit \in OnceBits /\ Has(this, bit)
            /\ thrown = OrderError => HigherSet(this, bit)

\* A call failed with the duplicate-part message, and the second state of a
\* chain is one on which an element or id call violates both rules.
C14_Witness ==
    /\ ret.throws = OnceError
    /\ \E o \in Objs \ {Builder}, bit \in OnceBits :
           /\ meta[o].from # Builder
           /\ Has(o, bit) /\ HigherSet(o, bit)
           /\ Outcome(o, bit).throws = OnceError

====
